---------------------------- MODULE Spec2Model ----------------------------
(***************************************************************************)
(* A model of the page registry, the page resolution pipeline, the event   *)
(* binder and the menu item loader of atvjs (src/src/page.ts,              *)
(* src/src/handler.ts, src/src/ajax.ts and the menu module).               *)
(*                                                                         *)
(* JavaScript values are strings: "undefined", "null", "false", "0", ""    *)
(* are the falsy values the model draws, every other string is truthy.     *)
(* A JavaScript string that the code parses (an event descriptor) is a     *)
(* sequence of tokens, " " being the space character.                      *)
(***************************************************************************)
EXTENDS Integers, Sequences, FiniteSets, TLC

(***************************************************************************)
(* Bounds of the model.                                                    *)
(***************************************************************************)
\* create() calls in one run
MaxPages == 2
\* page invocations in one run
MaxInv == 2
\* continuation calls (resolve, reject) the ready resolvers make in one run
MaxCalls == 2
\* elements of a parsed document that carry the class "item"
NumItems == 3
\* select events handled by the menu item handler in one run
MaxSelect == 2
\* menu items of one menu
MaxItems == 2
\* calls of setListeners and setDefaultHandlers on one document
MaxBind == 4

VARIABLES
  pages,      \* page.ts `pages`: the Map, as its entries in insertion order
  cfgs,       \* the configuration object of every factory made by create
  inv,        \* the page invocations: the pipeline's position and its promise
  docs,       \* the documents built by makeDom, in order of construction
  created,    \* menu: whether the menu was created
  itemsCache, \* menu: item id -> menu item element, as entries
  elements,   \* the menu item elements, in order of creation
  navLog,     \* the calls made on the menu bar and on Navigation, in order
  selects,    \* per element, the select events its handler has been run for
  fired,      \* the listeners the last dispatched event ran, in order
  defaults,   \* page.ts `defaults`: the page level default options
  declared,   \* the configuration of every factory as create was given it
  handlers,   \* handler.ts `handlers`: event name -> named default callbacks
  handlerCfg  \* the handlers object of the last Handler.setOptions call

pageVars == <<pages, cfgs, inv, docs>>
menuVars == <<created, itemsCache, elements, navLog, selects>>
optVars == <<defaults, declared>>
handlerVars == <<handlers, handlerCfg>>
vars ==
  <<pages, cfgs, inv, docs, created, itemsCache, elements, navLog, selects, fired,
    defaults, declared, handlers, handlerCfg>>

(***************************************************************************)
(* JavaScript values.                                                      *)
(***************************************************************************)
Undefined == "undefined"
Null == "null"

\* the falsy values: undefined, null, false, 0, ""
Falsy == {Undefined, Null, "false", "0", ""}

Truthy(v) == v \notin Falsy

\* _.isUndefined
IsUndefined(v) == v = Undefined

\* function values: those of the application, and the default template and
\* data functions of page.ts
Functions ==
  {"fn", "fA", "fB", "fC", "tplFn", "dataFn", "dtplFn", "noTemplate", "identity"}

\* _.isFunction
IsFunction(v) == v \in Functions

\* _.isString, for the values a style can take
IsString(v) == v \in {"", "css", "dcss"}

(***************************************************************************)
(* The Map `pages` (and any JavaScript object used as a map): entries in   *)
(* insertion order, one per key.                                           *)
(***************************************************************************)
MapHas(m, k) == \E j \in 1..Len(m) : m[j].key = k

\* the value of the first entry under key k; 0 stands for undefined
MapGet(m, k) ==
  IF MapHas(m, k)
    THEN m[CHOOSE j \in 1..Len(m) :
             m[j].key = k /\ \A h \in 1..(j - 1) : m[h].key # k].value
    ELSE 0

MapSetKeepFirst(m, k, v) ==
  IF MapHas(m, k) THEN m ELSE Append(m, [key |-> k, value |-> v])

MapSet(m, k, v) ==
  IF MapHas(m, k)
    THEN [j \in 1..Len(m) |-> IF m[j].key = k THEN [key |-> k, value |-> v] ELSE m[j]]
    ELSE Append(m, [key |-> k, value |-> v])


(***************************************************************************)
(* Strings the code parses: sequences of tokens.                           *)
(***************************************************************************)
RECURSIVE SplitFrom(_, _, _)
SplitFrom(s, cur, i) ==
  IF i > Len(s) THEN <<cur>>
  ELSE IF s[i] = " " THEN <<cur>> \o SplitFrom(s, <<>>, i + 1)
  ELSE SplitFrom(s, Append(cur, s[i]), i + 1)

\* e.split(" ")
Split(s) == SplitFrom(s, <<>>, 1)

\* e.indexOf(" "): 0-based, -1 when there is none
IndexOfSpace(s) ==
  IF \E j \in 1..Len(s) : s[j] = " "
    THEN (CHOOSE j \in 1..Len(s) : s[j] = " " /\ \A h \in 1..(j - 1) : s[h] # " ") - 1
    ELSE -1

\* e.substring(from)
Substring(s, from) == SubSeq(s, from + 1, Len(s))

(***************************************************************************)
(* The host's documents.  A parsed document holds the document node,       *)
(* target 0, and the elements 1..NumItems+1: the first NumItems carry the  *)
(* class "item", the last one does not.                                    *)
(***************************************************************************)
Targets == 0..(NumItems + 1)

ItemElems == [j \in 1..NumItems |-> j]

\* doc.querySelectorAll(selector): the matching elements in document order;
\* a selector the host cannot parse throws
QueryThrows(selector) == \E j \in 1..Len(selector) : selector[j] = "["

QuerySelectorAll(selector) ==
  IF selector = <<".item">> THEN ItemElems ELSE <<>>

\* two listeners are the same listener when they are the same function
\* object registered for the same event type
SameListener(a, b) == a.type = b.type /\ a.w = b.w /\ a.f = b.f

\* EventTarget.addEventListener: a listener already registered is not added again
AddEventListener(ls, l) ==
  IF \E j \in 1..Len(ls) : SameListener(ls[j], l) THEN ls ELSE Append(ls, l)

\* EventTarget.removeEventListener: removes the identical listener, if registered
RemoveEventListener(ls, l) ==
  LET Keep(x) == ~SameListener(x, l) IN SelectSeq(ls, Keep)

\* listenerFn: doc.addEventListener or doc.removeEventListener
ListenerFn(add, ls, l) ==
  IF add THEN AddEventListener(ls, l) ELSE RemoveEventListener(ls, l)

\* no event dispatched since the listeners last changed
NoDispatch == [target |-> -1, type |-> <<>>, ran |-> <<>>]

\* the listeners of one target an event of that type runs, in registration order
ListenersFor(ls, type) ==
  LET OfType(l) == l.type = type IN SelectSeq(ls, OfType)

\* dispatchEvent on target t of document d: the target's listeners, then, the
\* event bubbling, the document's
Propagate(d, t, type) ==
  IF t = 0
    THEN ListenersFor(d.listeners[0], type)
    ELSE ListenersFor(d.listeners[t], type) \o ListenersFor(d.listeners[0], type)

(***************************************************************************)
(* handler.ts: the default handlers and the binder.                        *)
(***************************************************************************)
\* the page level default handlers as handler.ts declares them: event name ->
\* named callbacks
DefaultHandlers ==
  << [key   |-> <<"select">>,
      value |-> << [key |-> "onLinkClick", value |-> "onLinkClick"],
                   [key |-> "onModalCloseBtnClick", value |-> "onModalCloseBtnClick"],
                   [key |-> "onMenuItemSelect", value |-> "onMenuItemSelect"] >>] >>

\* cfg[fn]: the property of that name on the configuration object
CfgProp(cfg, name) ==
  IF name \in DOMAIN cfg.props THEN cfg.props[name] ELSE Undefined

\* a name looked up on the configuration as create was given it
ResolveRefAsDeclared(cfg, ref) ==
  IF ref.t = "str" THEN CfgProp(declared[1], ref.v) ELSE ref.v

\* fn = _.isString(fn) ? cfg[fn] : fn
ResolveRef(cfg, ref) == IF ref.t = "str" THEN CfgProp(cfg, ref.v) ELSE ref.v

\* (e) => f.call(cfg, e): a new function object at every evaluation
Wrapper(type, n, f, self) == [type |-> type, w |-> n, f |-> f, self |-> self]

\* _.each(elements, (el) => listenerFn.call(el, ev, (e) => f.call(cfg, e)))
RECURSIVE EachElement(_, _, _, _, _, _, _)
EachElement(d, add, type, f, self, els, k) ==
  IF k > Len(els) THEN d
  ELSE LET n == d.closures + 1
           l == Wrapper(type, n, f, self)
           d1 == [d EXCEPT !.closures = n,
                           !.listeners[els[k]] = ListenerFn(add, @, l)]
       IN EachElement(d1, add, type, f, self, els, k + 1)

\* _.each(fns, (fn) => ...): string references are looked up on cfg, references
\* that are not functions are skipped
RECURSIVE EachFn(_, _, _, _, _, _, _, _)
EachFn(d, add, type, fns, cfg, self, els, k) ==
  IF k > Len(fns) THEN d
  ELSE LET fn == ResolveRef(cfg, fns[k])
           d1 == IF IsFunction(fn)
                   THEN EachElement(d, add, type, fn, self, els, 1)
                   ELSE d
       IN EachFn(d1, add, type, fns, cfg, self, els, k + 1)

\* the elements one descriptor binds to, a selector the host cannot parse
\* taken for one that matches every element carrying the class
DescriptorElementsMatchingItems(e) ==
  LET parts == Split(e)
      second == IF Len(parts) >= 2 THEN parts[2] ELSE <<>>
      selector == Substring(e, IndexOfSpace(e) + 1)
  IN IF second # <<>>
       THEN IF QueryThrows(selector) THEN ItemElems ELSE QuerySelectorAll(selector)
       ELSE <<0>>

\* the elements one descriptor binds to
DescriptorElements(e) ==
  LET parts == Split(e)
      second == IF Len(parts) >= 2 THEN parts[2] ELSE <<>>
      selector == Substring(e, IndexOfSpace(e) + 1)
  IN IF second # <<>>
       THEN IF QueryThrows(selector) THEN <<>> ELSE QuerySelectorAll(selector)
       ELSE <<0>>

\* the event name of a descriptor
DescriptorEvent(e) == Split(e)[1]

\* if (!_.isArray(fns)) fns = [fns]; an entry holds an array, fns, or one
\* handler reference, fn
HandlerList(entry) == IF entry.isArray THEN entry.fns ELSE <<entry.fn>>

\* _.each(events, (fns, e) => ...)
RECURSIVE EachEvent(_, _, _, _, _)
EachEvent(d, add, cfg, self, k) ==
  IF k > Len(cfg.events) THEN d
  ELSE LET entry == cfg.events[k]
           d1 == EachFn(d, add, DescriptorEvent(entry.desc), HandlerList(entry),
                        cfg, self, DescriptorElements(entry.desc), 1)
       IN EachEvent(d1, add, cfg, self, k + 1)

\* setListeners(doc, cfg, add), doc being document d and cfg being cfgs[self];
\* d.calls keeps the calls made on the document
SetListeners(d, cfg, self, add) ==
  LET called == [d EXCEPT !.calls =
                   Append(@, [fn |-> "setListeners", add |-> add, cfg |-> self])]
  IN EachEvent(called, add, cfg, self, 1)

\* _.each(handler, (callback) => listenerFn.call(doc, name, callback))
RECURSIVE EachCallback(_, _, _, _, _)
EachCallback(d, add, name, fns, k) ==
  IF k > Len(fns) THEN d
  ELSE LET l == [type |-> name, w |-> 0, f |-> fns[k].value, self |-> 0]
           d1 == [d EXCEPT !.listeners[0] = ListenerFn(add, @, l)]
       IN EachCallback(d1, add, name, fns, k + 1)

\* setDefaultHandlers(doc, add)
RECURSIVE SetDefaultHandlersFrom(_, _, _)
SetDefaultHandlersFrom(d, add, k) ==
  IF k > Len(handlers) THEN d
  ELSE SetDefaultHandlersFrom(
         EachCallback(d, add, handlers[k].key, handlers[k].value, 1), add, k + 1)

SetDefaultHandlers(d, add) ==
  LET called == [d EXCEPT !.calls =
                   Append(@, [fn |-> "setDefaultHandlers", add |-> add, cfg |-> 0])]
  IN SetDefaultHandlersFrom(called, add, 1)

\* the configuration's handlers first, then the defaults
SetHandlersListenersFirst(d, cfg, self, add) ==
  SetDefaultHandlers(SetListeners(d, cfg, self, add), add)

\* setHandlers(doc, cfg, add): the defaults first, then the configuration's
SetHandlers(d, cfg, self, add) ==
  SetListeners(SetDefaultHandlers(d, add), cfg, self, add)


(***************************************************************************)
(* page.ts: the page level defaults and the merges of a configuration with *)
(* them.  The `options` object is a record: `has` tells whether the object *)
(* is there, responseType is its one property.                             *)
(***************************************************************************)
\* no `options` object
NoOptions == [has |-> FALSE, responseType |-> Undefined]

\* the object {responseType: r}; {} when r is undefined
OptionsOf(r) == [has |-> TRUE, responseType |-> r]

\* `defaults` as page.ts declares it: no style, a template function that
\* warns and returns "", the identity as data function, responseType "json"
PageDefaults ==
  [ style    |-> "",
    template |-> "noTemplate",
    data     |-> "identity",
    options  |-> OptionsOf("json") ]

\* a property that an object given to setOptions does not have
Absent == "absent"

\* _.assign(defaults, patch): every property of patch replaces the default,
\* the `options` object as a whole
Assign(d, patch) ==
  [ style    |-> IF patch.style = Absent THEN d.style ELSE patch.style,
    template |-> IF patch.template = Absent THEN d.template ELSE patch.template,
    data     |-> IF patch.data = Absent THEN d.data ELSE patch.data,
    options  |-> IF patch.options.has THEN patch.options ELSE d.options ]

\* _.defaultsDeep(cfg, d), with the properties of cfg overwritten by those of
\* d whatever cfg already holds
DefaultsDeepOverwriting(cfg, d) ==
  [cfg EXCEPT !.style = d.style, !.template = d.template, !.data = d.data,
              !.options = d.options]

\* _.defaultsDeep(cfg, d) going no deeper than the properties of cfg itself
DefaultsDeepTopLevel(cfg, d) ==
  [cfg EXCEPT
     !.style    = IF IsUndefined(@) THEN d.style ELSE @,
     !.template = IF IsUndefined(@) THEN d.template ELSE @,
     !.data     = IF IsUndefined(@) THEN d.data ELSE @,
     !.options  = IF ~@.has THEN d.options ELSE @ ]

\* _.defaultsDeep(cfg, d): every property of cfg that is undefined takes the
\* value d has for it, recursively in `options`; cfg is the object changed
DefaultsDeep(cfg, d) ==
  [cfg EXCEPT
     !.style    = IF IsUndefined(@) THEN d.style ELSE @,
     !.template = IF IsUndefined(@) THEN d.template ELSE @,
     !.data     = IF IsUndefined(@) THEN d.data ELSE @,
     !.options  = IF ~@.has THEN d.options
                  ELSE IF d.options.has /\ IsUndefined(@.responseType)
                         THEN OptionsOf(d.options.responseType)
                         ELSE @ ]

\* _.defaults(cfg, d): as _.defaultsDeep, but an `options` object of cfg is
\* left as it is
Defaults(cfg, d) ==
  [cfg EXCEPT
     !.style    = IF IsUndefined(@) THEN d.style ELSE @,
     !.template = IF IsUndefined(@) THEN d.template ELSE @,
     !.data     = IF IsUndefined(@) THEN d.data ELSE @,
     !.options  = IF ~@.has THEN d.options ELSE @ ]

(***************************************************************************)
(* page.ts: document construction.                                         *)
(***************************************************************************)
\* Parser.dom(template, data): a fresh document, nothing bound to it yet
ParserDom(template, data) ==
  [ inv       |-> 0,
    template  |-> template,
    data      |-> data,
    style     |-> Undefined,
    steps     |-> <<"template">>,
    page      |-> 0,
    listeners |-> [t \in Targets |-> <<>>],
    closures  |-> 0,
    calls     |-> <<>> ]

\* appendStyle(style, doc): nothing unless the style is a string
AppendStyle(style, d) ==
  IF ~IsString(style) THEN d
  ELSE [d EXCEPT !.style = style, !.steps = Append(@, "style")]

\* prepareDom(doc, cfg): the defaults, the style, then Handler.addAll(doc, cfg)
PrepareDom(d, cfg, self) ==
  LET c      == Defaults(cfg, defaults)
      styled == AppendStyle(c.style, d)
      bound  == SetHandlers(styled, c, self, TRUE)
  IN [bound EXCEPT !.steps = Append(@, "events")]

\* cfg.data(response): the identity returns its argument
ApplyData(fn, response) ==
  IF fn = "identity" THEN <<response>> ELSE <<fn, response>>

\* the response handed to the template as it is, whatever cfg.data is
DataForRaw(cfg, response) == <<response>>

\* _.isFunction(cfg.data) ? cfg.data(response) : cfg.data
DataFor(cfg, response) ==
  IF IsFunction(cfg.data) THEN ApplyData(cfg.data, response) ELSE <<cfg.data>>

\* the configuration object after makeDom: _.defaults(cfg, defaults) in
\* makeDom and again in prepareDom
MakeDomCfg(cfg) == Defaults(Defaults(cfg, defaults), defaults)

\* makeDom tagging the document before afterReady is called
MakeDomTagFirst(cfg, self, response, i) ==
  LET c        == Defaults(cfg, defaults)
      payload  == IF IsUndefined(response) THEN "[]" ELSE response
      raw      == [ParserDom(c.template, DataFor(c, payload)) EXCEPT
                     !.inv = i, !.page = self,
                     !.steps = (IF IsFunction(c.data) THEN <<"data">> ELSE <<>>)
                                 \o <<"tag">> \o @]
      prepared == PrepareDom(raw, c, self)
  IN IF IsFunction(c.afterReady)
       THEN [prepared EXCEPT !.steps = Append(@, "afterReady")]
       ELSE prepared

\* makeDom passing an undefined response on instead of the empty list
MakeDomNoDefault(cfg, self, response, i) ==
  LET c        == Defaults(cfg, defaults)
      raw      == [ParserDom(c.template, DataFor(c, response)) EXCEPT
                     !.inv = i,
                     !.steps = (IF IsFunction(c.data) THEN <<"data">> ELSE <<>>) \o @]
      prepared == PrepareDom(raw, c, self)
      after    == IF IsFunction(c.afterReady)
                    THEN [prepared EXCEPT !.steps = Append(@, "afterReady")]
                    ELSE prepared
  IN [after EXCEPT !.page = self, !.steps = Append(@, "tag")]

\* makeDom(cfg, response = []) called by invocation i, cfg being cfgs[self]
MakeDom(cfg, self, response, i) ==
  LET c        == Defaults(cfg, defaults)
      payload  == IF IsUndefined(response) THEN "[]" ELSE response
      raw      == [ParserDom(c.template, DataFor(c, payload)) EXCEPT
                     !.inv = i,
                     !.steps = (IF IsFunction(c.data) THEN <<"data">> ELSE <<>>) \o @]
      prepared == PrepareDom(raw, c, self)
      after    == IF IsFunction(c.afterReady)
                    THEN [prepared EXCEPT !.steps = Append(@, "afterReady")]
                    ELSE prepared
  IN [after EXCEPT !.page = self, !.steps = Append(@, "tag")]

(***************************************************************************)
(* Promises: settled by the first resolve or reject, later calls ignored.  *)
(***************************************************************************)
Pending == [state |-> "pending", value |-> Undefined, doc |-> 0]

\* a rejection taken even after the promise was settled
SettleRejectionWins(p, state, value, doc) ==
  IF p.state = "pending" \/ state = "rejected"
    THEN [state |-> state, value |-> value, doc |-> doc]
    ELSE p

SettleAlways(p, state, value, doc) ==
  [state |-> state, value |-> value, doc |-> doc]

Settle(p, state, value, doc) ==
  IF p.state = "pending"
    THEN [state |-> state, value |-> value, doc |-> doc]
    ELSE p

(***************************************************************************)
(* ajax.ts: the transport.                                                 *)
(***************************************************************************)
\* the statuses a finished request is drawn from; 0 is a network error or abort
Statuses == {0, 199, 200, 300, 301}

\* xhr.response of a finished request
Responses == {"data", Null}

\* the test with 300 left out of the range
AjaxSucceedsBelow300(status) == status >= 200 /\ status < 300

\* xhr.status >= 200 && xhr.status <= 300
AjaxSucceeds(status) == status >= 200 /\ status <= 300

(***************************************************************************)
(* page.ts: the registry.                                                  *)
(***************************************************************************)
Names == {"a", "b"}

\* a page configuration as the caller writes it
Cfg(name, ready, url, onError, afterReady, events) ==
  [ name       |-> name,
    ready      |-> ready,
    url        |-> url,
    onError    |-> onError,
    afterReady |-> afterReady,
    events     |-> events,
    props      |-> [n \in {"onSel"} |-> "fA"],
    style      |-> Undefined,
    template   |-> Undefined,
    data       |-> Undefined,
    options    |-> NoOptions ]

\* cfg with the style, the template, the data and the options the caller gives
With(cfg, style, template, data, options) ==
  [cfg EXCEPT !.style = style, !.template = template, !.data = data,
              !.options = options]

\* a handler reference: the name of a property of the configuration, or a
\* function
ByName(name) == [t |-> "str", v |-> name]
Direct(f) == [t |-> "fn", v |-> f]

\* an event map entry whose value is an array of handler references
ArrayEntry(desc, fns) ==
  [desc |-> desc, isArray |-> TRUE, fns |-> fns, fn |-> Direct(Undefined)]

\* an event map entry whose value is one handler reference
SingleEntry(desc, fn) ==
  [desc |-> desc, isArray |-> FALSE, fns |-> <<>>, fn |-> fn]

\* "select .item": ["onSel", function fB]
ItemEvents ==
  << ArrayEntry(<<"select", " ", ".item">>, <<ByName("onSel"), Direct("fB")>>) >>

\* "select [": [function fB], "play": ["missing", "onSel"]: a selector the
\* host cannot parse, then a descriptor of the document node
MalformedEvents ==
  << ArrayEntry(<<"select", " ", "[">>, <<Direct("fB")>>),
     ArrayEntry(<<"play">>, <<ByName("missing"), ByName("onSel")>>) >>

\* the configurations pages are created from
PageCfgs ==
  { With(Cfg(Undefined, "fn", "/x", Undefined, "fn", ItemEvents),
         "css", "tplFn", "dataFn", OptionsOf("text")),
    Cfg(Undefined, "fn", Undefined, "fn", Undefined, <<>>),
    Cfg(Undefined, Undefined, "/x", "fn", Undefined, <<>>),
    With(Cfg(Undefined, Undefined, "/x", Undefined, "fn", <<>>),
         Undefined, "<doc/>", "literal", OptionsOf(Undefined)),
    Cfg(Undefined, "notAFunction", "", Undefined, Undefined, <<>>),
    With(Cfg(Undefined, Undefined, Undefined, Undefined, Undefined, ItemEvents),
         "", "tplFn", "dataFn", NoOptions),
    With(Cfg(Undefined, Undefined, Undefined, Undefined, "fn", <<>>),
         "notAString", Undefined, "literal", NoOptions),
    Cfg(Undefined, "fn", Undefined, Undefined, Undefined, MalformedEvents) }

\* pages.get(name); 0 stands for undefined
Get(name) == MapGet(pages, name)

\* create, once name and cfg are canonical: _.assign(cfg, {name}),
\* p = makePage(cfg), pages.set(name, p)
Register(name, cfg) ==
  /\ Len(cfgs) < MaxPages
  /\ cfgs' = Append(cfgs, [cfg EXCEPT !.name = name])
  /\ declared' = Append(declared, [cfg EXCEPT !.name = name])
  /\ pages' = MapSet(pages, name, Len(cfgs) + 1)

\* create(name, cfg) with a name that is not an object
CreateNamed(name, cfg) ==
  /\ Register(name, cfg)
  /\ UNCHANGED <<inv, docs>>
  /\ UNCHANGED menuVars
  /\ UNCHANGED <<fired, defaults>>
  /\ UNCHANGED handlerVars

\* create(cfg): the name is the configuration's own
CreateFromConfig(cfg) ==
  /\ Register(cfg.name, cfg)
  /\ UNCHANGED <<inv, docs>>
  /\ UNCHANGED menuVars
  /\ UNCHANGED <<fired, defaults>>
  /\ UNCHANGED handlerVars

(***************************************************************************)
(* page.ts: the resolution pipeline of one invocation.                     *)
(***************************************************************************)
\* the branch the promise executor takes
StrategyUrlFirst(cfg) ==
  IF Truthy(cfg.url) THEN "url"
  ELSE IF IsFunction(cfg.ready) THEN "ready"
  ELSE "none"

Strategy(cfg) ==
  IF IsFunction(cfg.ready) THEN "ready"
  ELSE IF Truthy(cfg.url) THEN "url"
  ELSE "none"

\* response || _.isUndefined(response)
RendersUnlessNull(response) == response # Null

Renders(response) == Truthy(response) \/ IsUndefined(response)

\* the values a ready resolver passes to resolve, and to reject
ResolveArgs == {Undefined, Null, "false", "0", "", "data"}
RejectArgs == {"x", "y"}

\* the continuation calls made so far, over all invocations
RECURSIVE CallsFrom(_, _)
CallsFrom(is, k) ==
  IF k > Len(is) THEN 0 ELSE Len(is[k].hist) + CallsFrom(is, k + 1)

Calls == CallsFrom(inv, 1)

NewInvocation(f, owner) ==
  [ page        |-> f,
    owner       |-> owner,
    pc          |-> "start",
    readyCalled |-> FALSE,
    ajaxUrl     |-> Undefined,
    ajaxOptions |-> NoOptions,
    direct      |-> FALSE,
    hist        |-> <<>>,
    xhr         |-> [status |-> -1, response |-> Undefined],
    errArgs     |-> <<>>,
    reacted     |-> FALSE,
    promise     |-> Pending ]

\* the configuration object left as create was given it
MergedNowhere(f) == cfgs[f]

\* _.defaultsDeep(cfg, defaults) in the page function of factory f: cfg is
\* the object create was given, whichever invocation runs
Merged(f) == DefaultsDeep(cfgs[f], defaults)

\* the page function made by makePage(cfgs[f]), called for `owner` (0: by the
\* application): the synchronous part, up to the promise being returned
Invocation(f, owner) ==
  LET cfg == Merged(f)
      i   == Len(inv) + 1
      new == NewInvocation(f, owner)
  IN CASE Strategy(cfg) = "ready" ->
            [ inv  |-> [new EXCEPT !.pc = "ready", !.readyCalled = TRUE],
              docs |-> docs,
              cfg  |-> cfg ]
       [] Strategy(cfg) = "url" ->
            [ inv  |-> [new EXCEPT !.pc = "ajax", !.ajaxUrl = cfg.url,
                          !.ajaxOptions = cfg.options],
              docs |-> docs,
              cfg  |-> cfg ]
       [] OTHER ->
            [ inv  |-> [new EXCEPT !.pc = "done", !.direct = TRUE,
                          !.promise = Settle(@, "resolved", "doc", Len(docs) + 1)],
              docs |-> Append(docs, MakeDom(cfg, f, Undefined, i)),
              cfg  |-> MakeDomCfg(cfg) ]

\* the application calls a page function
Invoke(f) ==
  /\ Len(inv) < MaxInv
  /\ f \in 1..Len(cfgs)
  /\ inv' = Append(inv, Invocation(f, 0).inv)
  /\ docs' = Invocation(f, 0).docs
  /\ cfgs' = [cfgs EXCEPT ![f] = Invocation(f, 0).cfg]
  /\ UNCHANGED pages
  /\ UNCHANGED menuVars
  /\ UNCHANGED fired
  /\ UNCHANGED optVars
  /\ UNCHANGED handlerVars

\* the ready resolver calls its resolve continuation with v
ReadyResolve(i, v) ==
  /\ i \in 1..Len(inv)
  /\ inv[i].pc = "ready"
  /\ Calls < MaxCalls
  /\ LET f == inv[i].page
         call == [k |-> "resolve", v |-> v]
     IN IF Renders(v)
          THEN /\ docs' = Append(docs, MakeDom(cfgs[f], f, v, i))
               /\ cfgs' = [cfgs EXCEPT ![f] = MakeDomCfg(@)]
               /\ inv' = [inv EXCEPT ![i].hist = Append(@, call),
                            ![i].promise = Settle(@, "resolved", "doc", Len(docs) + 1)]
          ELSE /\ docs' = docs
               /\ cfgs' = cfgs
               /\ inv' = [inv EXCEPT ![i].hist = Append(@, call),
                            ![i].promise = Settle(@, "resolved", Null, 0)]
  /\ UNCHANGED pages
  /\ UNCHANGED menuVars
  /\ UNCHANGED fired
  /\ UNCHANGED optVars
  /\ UNCHANGED handlerVars

\* the ready resolver calls its reject continuation with x
ReadyReject(i, x) ==
  /\ i \in 1..Len(inv)
  /\ inv[i].pc = "ready"
  /\ Calls < MaxCalls
  /\ inv' = [inv EXCEPT ![i].hist = Append(@, [k |-> "reject", v |-> x]),
               ![i].promise = Settle(@, "rejected", x, 0)]
  /\ UNCHANGED <<pages, cfgs, docs>>
  /\ UNCHANGED menuVars
  /\ UNCHANGED fired
  /\ UNCHANGED optVars
  /\ UNCHANGED handlerVars

\* xhr.onreadystatechange at readyState 4 (or the error or abort event): the
\* transport's promise is settled with xhr
XhrDone(i, status, response) ==
  /\ i \in 1..Len(inv)
  /\ inv[i].pc = "ajax"
  /\ inv' = [inv EXCEPT ![i].pc = "ajaxSettled",
               ![i].xhr = [status |-> status, response |-> response]]
  /\ UNCHANGED <<pages, cfgs, docs>>
  /\ UNCHANGED menuVars
  /\ UNCHANGED fired
  /\ UNCHANGED optVars
  /\ UNCHANGED handlerVars

\* the callbacks of Ajax.get(cfg.url, cfg.options).then(...)
AjaxThen(i) ==
  /\ i \in 1..Len(inv)
  /\ inv[i].pc = "ajaxSettled"
  /\ LET f == inv[i].page
         xhr == inv[i].xhr
     IN IF AjaxSucceeds(xhr.status)
          THEN /\ docs' = Append(docs, MakeDom(cfgs[f], f, xhr.response, i))
               /\ cfgs' = [cfgs EXCEPT ![f] = MakeDomCfg(@)]
               /\ inv' = [inv EXCEPT ![i].pc = "done",
                            ![i].promise = Settle(@, "resolved", "doc", Len(docs) + 1)]
          ELSE /\ docs' = docs
               /\ cfgs' = cfgs
               /\ IF IsFunction(cfgs[f].onError)
                    THEN inv' = [inv EXCEPT ![i].pc = "done",
                                   ![i].errArgs = Append(@, [response |-> xhr.response,
                                                             xhr |-> i])]
                    ELSE inv' = [inv EXCEPT ![i].pc = "done",
                                   ![i].promise = Settle(@, "rejected", "xhr", 0)]
  /\ UNCHANGED pages
  /\ UNCHANGED menuVars
  /\ UNCHANGED fired
  /\ UNCHANGED optVars
  /\ UNCHANGED handlerVars

(***************************************************************************)
(* The pipeline: one page, created as create("a", cfg), and its            *)
(* invocations.                                                            *)
(***************************************************************************)
Init ==
  \E c \in PageCfgs :
    /\ cfgs = <<[c EXCEPT !.name = "a"]>>
    /\ pages = MapSet(<<>>, "a", 1)
    /\ inv = <<>>
    /\ docs = <<>>
    /\ created = FALSE
    /\ itemsCache = <<>>
    /\ elements = <<>>
    /\ navLog = <<>>
    /\ selects = <<>>
    /\ fired = NoDispatch
    /\ defaults = PageDefaults
    /\ declared = cfgs
    /\ handlers = DefaultHandlers
    /\ handlerCfg = <<>>

Next ==
  \/ \E f \in 1..MaxPages : Invoke(f)
  \/ \E i \in 1..MaxInv, v \in ResolveArgs : ReadyResolve(i, v)
  \/ \E i \in 1..MaxInv, x \in RejectArgs : ReadyReject(i, x)
  \/ \E i \in 1..MaxInv, s \in Statuses, r \in Responses : XhrDone(i, s, r)
  \/ \E i \in 1..MaxInv : AjaxThen(i)

Spec == Init /\ [][Next]_vars


(***************************************************************************)
(* The registry: create under the names "a", "b" and without a name.       *)
(***************************************************************************)
InitRegistry ==
  /\ pages = <<>>
  /\ cfgs = <<>>
  /\ inv = <<>>
  /\ docs = <<>>
  /\ created = FALSE
  /\ itemsCache = <<>>
  /\ elements = <<>>
  /\ navLog = <<>>
  /\ selects = <<>>
  /\ fired = NoDispatch
  /\ defaults = PageDefaults
  /\ declared = cfgs
  /\ handlers = DefaultHandlers
  /\ handlerCfg = <<>>

NextRegistry ==
  \/ \E n \in Names \cup {Undefined}, c \in PageCfgs : CreateNamed(n, c)
  \/ \E n \in Names \cup {Undefined}, c \in PageCfgs :
       CreateFromConfig([c EXCEPT !.name = n])

SpecRegistry == InitRegistry /\ [][NextRegistry]_vars

(***************************************************************************)
(* The menu module and the menu item handler of handler.ts.                *)
(***************************************************************************)
\* menuItemReloadAttribute
ReloadAttribute == "reloadOnSelect"

\* element.getAttribute(name): null when the attribute is absent
GetAttribute(el, name) == el.attrs[name]

\* every node name taken for that of a menu item
ToLowerCaseAsMenuItem(nodeName) == "menuitem"

\* element.nodeName.toLowerCase()
ToLowerCase(nodeName) ==
  CASE nodeName = "menuItem" -> "menuitem"
    [] OTHER -> nodeName

\* a menu item as Menu.create is given it
Item(id, page, reload) ==
  [id |-> id, page |-> page, attributes |-> [reloadOnSelect |-> reload]]

\* the item lists Menu.create is called with; page 0 stands for no page
ItemLists ==
  { << Item("m1", 1, Null), Item("m2", 2, Null) >>,
    << Item("m1", 1, Null), Item("", 2, Null), Item("m2", 0, Null) >>,
    << Item("m1", 2, "true") >>,
    << Item("m1", 1, "") >> }

\* addItem(item): nothing without an id; else an element with the attributes
\* and the id, the page reference on it, cached under the id
RECURSIVE AddItems(_, _, _)
AddItems(m, items, k) ==
  IF k > Len(items) THEN m
  ELSE LET item == items[k]
           el == [ nodeName |-> "menuItem",
                   attrs    |-> [id |-> item.id,
                                 reloadOnSelect |-> item.attributes.reloadOnSelect],
                   page     |-> item.page,
                   pageDoc  |-> 0 ]
       IN IF ~Truthy(item.id)
            THEN AddItems(m, items, k + 1)
            ELSE AddItems([ elements   |-> Append(m.elements, el),
                            itemsCache |-> MapSet(m.itemsCache, item.id,
                                                  Len(m.elements) + 1) ],
                          items, k + 1)

\* Menu.create({items}): once
MenuCreate(items) ==
  /\ ~created
  /\ LET m == AddItems([elements |-> elements, itemsCache |-> itemsCache], items, 1)
     IN /\ elements' = m.elements
        /\ itemsCache' = m.itemsCache
        /\ selects' = [e \in 1..Len(m.elements) |->
                          IF e <= Len(selects) THEN selects[e] ELSE 0]
  /\ created' = TRUE
  /\ UNCHANGED <<navLog>>
  /\ UNCHANGED pageVars
  /\ UNCHANGED fired
  /\ UNCHANGED optVars
  /\ UNCHANGED handlerVars

\* el.setAttribute("reloadOnSelect", v) by the application
SetReload(e, v) ==
  /\ e \in 1..Len(elements)
  /\ elements[e].attrs.reloadOnSelect # v
  /\ elements' = [elements EXCEPT ![e].attrs.reloadOnSelect = v]
  /\ UNCHANGED <<created, itemsCache, navLog, selects>>
  /\ UNCHANGED pageVars
  /\ UNCHANGED fired
  /\ UNCHANGED optVars
  /\ UNCHANGED handlerVars

\* a call on the menu bar feature or on Navigation, made for invocation i by
\* the select handler ("select") or by the callbacks of its promise ("then")
Call(op, by, item, kind, doc, payload, i) ==
  [ op |-> op, by |-> by, item |-> item, kind |-> kind, doc |-> doc,
    payload |-> payload, inv |-> i ]

\* Menu.setDocument(doc, menuItemid): nothing when the id is not cached
MenuSetDocument(by, menuId, kind, doc, payload, i) ==
  IF MapGet(itemsCache, menuId) = 0
    THEN <<>>
    ELSE << Call("setDocument", by, MapGet(itemsCache, menuId), kind, doc, payload, i) >>

\* Navigation.dismissModal()
DismissModal(by, i) == << Call("dismissModal", by, 0, "", 0, Undefined, i) >>

\* (!element.pageDoc || element.getAttribute(menuItemReloadAttribute)) && page
ShouldLoadIgnoringReload(el) == el.pageDoc = 0 /\ el.page # 0

ShouldLoad(el) ==
  (el.pageDoc = 0 \/ Truthy(GetAttribute(el, ReloadAttribute))) /\ el.page # 0

\* the page invoked before the loading placeholder is published
SelectCallsPageFirst(e, menuId, i) ==
  << Call("page", "select", e, "", 0, Undefined, i) >>
    \o MenuSetDocument("select", menuId, "loader", 0, Undefined, i)

\* Menu.setDocument(Navigation.getLoaderDoc(Menu.getLoadingMessage()), menuId)
\* and then page(), for element e and the invocation i that page() starts
SelectCalls(e, menuId, i) ==
  MenuSetDocument("select", menuId, "loader", 0, Undefined, i)
    \o << Call("page", "select", e, "", 0, Undefined, i) >>

\* the select events handled so far
RECURSIVE SelectsFrom(_)
SelectsFrom(k) == IF k > Len(selects) THEN 0 ELSE selects[k] + SelectsFrom(k + 1)

Selects == SelectsFrom(1)

\* onMenuItemSelect(e), e.target being element e
OnMenuItemSelect(e) ==
  /\ e \in 1..Len(elements)
  /\ Selects < MaxSelect
  /\ selects' = [selects EXCEPT ![e] = @ + 1]
  /\ LET element == elements[e]
         menuId == GetAttribute(element, "id")
         i == Len(inv) + 1
     IN IF ToLowerCase(element.nodeName) = "menuitem" /\ ShouldLoad(element)
          THEN /\ Len(inv) < MaxInv
               /\ navLog' = navLog \o SelectCalls(e, menuId, i)
               /\ inv' = Append(inv, Invocation(element.page, e).inv)
               /\ docs' = Invocation(element.page, e).docs
               /\ cfgs' = [cfgs EXCEPT ![element.page] =
                                         Invocation(element.page, e).cfg]
          ELSE UNCHANGED <<navLog, inv, docs, cfgs>>
  /\ UNCHANGED <<pages, created, itemsCache, elements, fired>>
  /\ UNCHANGED optVars
  /\ UNCHANGED handlerVars

\* the calls the callbacks of page().then(...) make for element el once the
\* promise p of invocation i is settled
ThenCallsErrorOnNull(el, p, i) ==
  LET menuId == GetAttribute(el, "id")
  IN IF p.state = "resolved" /\ p.doc # 0
       THEN MenuSetDocument("then", menuId, "doc", p.doc, Undefined, i)
              \o DismissModal("then", i)
       ELSE MenuSetDocument("then", menuId, "error", 0, p.value, i)
              \o DismissModal("then", i)

\* dismissal requested before anything is published
ThenCallsDismissFirst(el, p, i) ==
  LET menuId == GetAttribute(el, "id")
  IN IF p.state = "resolved"
       THEN DismissModal("then", i)
            \o (IF p.doc # 0
                  THEN MenuSetDocument("then", menuId, "doc", p.doc, Undefined, i)
                  ELSE <<>>)
       ELSE DismissModal("then", i)
              \o MenuSetDocument("then", menuId, "error", 0, p.value, i)

ThenCalls(el, p, i) ==
  LET menuId == GetAttribute(el, "id")
  IN IF p.state = "resolved"
       THEN (IF p.doc # 0
               THEN MenuSetDocument("then", menuId, "doc", p.doc, Undefined, i)
               ELSE <<>>)
            \o DismissModal("then", i)
       ELSE MenuSetDocument("then", menuId, "error", 0, p.value, i)
              \o DismissModal("then", i)

\* element.pageDoc assigned whatever the promise was settled with
PageDocAfterSettlement(pageDoc, p) == p.doc

\* element.pageDoc once the callbacks of page().then(...) have run: assigned
\* by the fulfilment callback when there is a document, else left as it was
PageDocAfter(pageDoc, p) ==
  IF p.state = "resolved" /\ p.doc # 0 THEN p.doc ELSE pageDoc

\* the callbacks of page().then(...) in onMenuItemSelect, for invocation i
MenuThen(i) ==
  /\ i \in 1..Len(inv)
  /\ inv[i].owner # 0
  /\ inv[i].promise.state # "pending"
  /\ ~inv[i].reacted
  /\ LET e == inv[i].owner
         p == inv[i].promise
     IN /\ elements' = [elements EXCEPT ![e].pageDoc = PageDocAfter(@, p)]
        /\ navLog' = navLog \o ThenCalls(elements[e], p, i)
  /\ inv' = [inv EXCEPT ![i].reacted = TRUE]
  /\ UNCHANGED <<pages, cfgs, docs, created, itemsCache, selects, fired>>
  /\ UNCHANGED optVars
  /\ UNCHANGED handlerVars

\* the pages the menu items refer to: one resolved by a ready resolver, one
\* fetched from a url
MenuPages ==
  << Cfg("a", "fn", Undefined, Undefined, Undefined, <<>>),
     Cfg("b", Undefined, "/x", Undefined, Undefined, <<>>) >>

\* an element that is not a menu item and can be the target of a select
\* event, with the page reference the application has set on it
Lockup(page) ==
  [ nodeName |-> "lockup",
    attrs    |-> [id |-> Null, reloadOnSelect |-> Null],
    page     |-> page,
    pageDoc  |-> 0 ]

InitMenu ==
  /\ cfgs = MenuPages
  /\ pages = MapSet(MapSet(<<>>, "a", 1), "b", 2)
  /\ inv = <<>>
  /\ docs = <<>>
  /\ created = FALSE
  /\ itemsCache = <<>>
  /\ elements = << Lockup(1) >>
  /\ navLog = <<>>
  /\ selects = <<0>>
  /\ fired = NoDispatch
  /\ defaults = PageDefaults
  /\ declared = cfgs
  /\ handlers = DefaultHandlers
  /\ handlerCfg = <<>>

NextMenu ==
  \/ \E items \in ItemLists : MenuCreate(items)
  \/ \E e \in 2..(MaxItems + 1) : SetReload(e, "true")
  \/ \E e \in 1..(MaxItems + 1) : OnMenuItemSelect(e)
  \/ \E i \in 1..MaxInv, v \in {Null, "data"} : ReadyResolve(i, v)
  \/ \E i \in 1..MaxInv : ReadyReject(i, "x")
  \/ \E i \in 1..MaxInv, s \in {200, 301} : XhrDone(i, s, "data")
  \/ \E i \in 1..MaxInv : AjaxThen(i)
  \/ \E i \in 1..MaxInv : MenuThen(i)

SpecMenu == InitMenu /\ [][NextMenu]_vars

(***************************************************************************)
(* The binder on its own: one parsed document, one configuration, and the  *)
(* calls of Handler.addListeners, removeListeners, addAll and removeAll.   *)
(***************************************************************************)
\* the event maps the binder is given
BindEvents ==
  { ItemEvents,
    << SingleEntry(<<"select">>, Direct("fB")) >>,
    MalformedEvents,
    << ArrayEntry(<<"select", " ", " ", ".item">>, <<Direct("fB")>>) >> }

\* Handler.addListeners(doc, cfg) and Handler.removeListeners(doc, cfg)
Listeners(d, c, add) ==
  /\ d \in 1..Len(docs)
  /\ c \in 1..Len(cfgs)
  /\ Len(docs[d].calls) < MaxBind
  /\ docs' = [docs EXCEPT ![d] = SetListeners(@, cfgs[c], c, add)]
  /\ fired' = NoDispatch
  /\ UNCHANGED <<pages, cfgs, inv>>
  /\ UNCHANGED menuVars
  /\ UNCHANGED optVars
  /\ UNCHANGED handlerVars

AddListeners(d, c) == Listeners(d, c, TRUE)

RemoveListeners(d, c) == Listeners(d, c, FALSE)

\* Handler.addAll(doc, cfg) and Handler.removeAll(doc, cfg)
Handlers(d, c, add) ==
  /\ d \in 1..Len(docs)
  /\ c \in 1..Len(cfgs)
  /\ Len(docs[d].calls) < MaxBind
  /\ docs' = [docs EXCEPT ![d] = SetHandlers(@, cfgs[c], c, add)]
  /\ fired' = NoDispatch
  /\ UNCHANGED <<pages, cfgs, inv>>
  /\ UNCHANGED menuVars
  /\ UNCHANGED optVars
  /\ UNCHANGED handlerVars

AddAll(d, c) == Handlers(d, c, TRUE)

RemoveAll(d, c) == Handlers(d, c, FALSE)

\* cfg[name] = v by the application, on the configuration object it has
\* kept: one assignment to a property, which holds what was declared until then
AssignHandler(c, name, v) ==
  /\ c \in 1..Len(cfgs)
  /\ cfgs[c].props[name] = declared[c].props[name]
  /\ cfgs[c].props[name] # v
  /\ cfgs' = [cfgs EXCEPT ![c].props[name] = v]
  /\ UNCHANGED <<pages, inv, docs>>
  /\ UNCHANGED menuVars
  /\ UNCHANGED fired
  /\ UNCHANGED optVars
  /\ UNCHANGED handlerVars

\* the host dispatches an event of that type on target t of document d
Dispatch(d, t, type) ==
  /\ d \in 1..Len(docs)
  /\ fired' = [target |-> t, type |-> type, ran |-> Propagate(docs[d], t, type)]
  /\ UNCHANGED pageVars
  /\ UNCHANGED menuVars
  /\ UNCHANGED optVars
  /\ UNCHANGED handlerVars

InitBind ==
  \E events \in BindEvents :
    /\ cfgs = << Cfg("a", Undefined, Undefined, Undefined, Undefined, events) >>
    /\ pages = MapSet(<<>>, "a", 1)
    /\ inv = <<>>
    /\ docs = << ParserDom("noTemplate", <<"[]">>) >>
    /\ created = FALSE
    /\ itemsCache = <<>>
    /\ elements = <<>>
    /\ navLog = <<>>
    /\ selects = <<>>
    /\ fired = NoDispatch
    /\ defaults = PageDefaults
    /\ declared = cfgs
    /\ handlers = DefaultHandlers
    /\ handlerCfg = <<>>

NextBind ==
  \/ AddListeners(1, 1)
  \/ RemoveListeners(1, 1)
  \/ AddAll(1, 1)
  \/ RemoveAll(1, 1)
  \/ \E v \in {"fC", "notAFunction"} : AssignHandler(1, "onSel", v)
  \/ \E t \in Targets, type \in {<<"select">>, <<"play">>} : Dispatch(1, t, type)

SpecBind == InitBind /\ [][NextBind]_vars

(***************************************************************************)
(* The default handlers of handler.ts on their own: one parsed document    *)
(* whose configuration declares a handler on the document node, one        *)
(* element that select events are dispatched on, Handler.setOptions, and   *)
(* Handler.addAll and removeAll.                                           *)
(***************************************************************************)
HrefAttribute == "data-href-page"
HrefOptionsAttribute == "data-href-page-options"
HrefPageReplaceAttribute == "data-href-page-replace"
ModalCloseBtnAttribute == "data-alert-dissmiss"

\* attribute values: JSON text of the object {"id": 1}, and the text of the
\* example in the documentation of onLinkClick, which is not JSON
ValidJson == "{\"id\": 1}"
MalformedJson == "{id: 'MOVIE_ID'}"

\* JSON.parse(text): an object is a map, as its entries; any text but that of
\* an object the model draws makes it throw
JsonParse(text) ==
  CASE text = "{}"      -> [threw |-> FALSE, value |-> <<>>]
    [] text = ValidJson -> [threw |-> FALSE,
                            value |-> << [key |-> "id", value |-> 1] >>]
    [] OTHER            -> [threw |-> TRUE, value |-> <<>>]

\* a call on Navigation
NavCall(op, page, options, replace) ==
  [op |-> op, page |-> page, options |-> options, replace |-> replace]

\* Navigation.navigate(page, options, replace)
Navigate(page, options, replace) == << NavCall("navigate", page, options, replace) >>

\* onLinkClick with the failure of JSON.parse left uncaught
OnLinkClickUncaught(el) ==
  LET page    == GetAttribute(el, HrefAttribute)
      replace == GetAttribute(el, HrefPageReplaceAttribute) = "true"
      attr    == IF Truthy(GetAttribute(el, HrefOptionsAttribute))
                   THEN GetAttribute(el, HrefOptionsAttribute)
                   ELSE "{}"
  IN IF ~Truthy(page) \/ JsonParse(attr).threw
       THEN <<>>
       ELSE Navigate(page, JsonParse(attr).value, replace)

\* handlers.select.onLinkClick(e), e.target being el: the calls it makes
OnLinkClick(el) ==
  LET page    == GetAttribute(el, HrefAttribute)
      replace == GetAttribute(el, HrefPageReplaceAttribute) = "true"
      attr    == IF Truthy(GetAttribute(el, HrefOptionsAttribute))
                   THEN GetAttribute(el, HrefOptionsAttribute)
                   ELSE "{}"
      options == IF JsonParse(attr).threw THEN <<>> ELSE JsonParse(attr).value
  IN IF ~Truthy(page) THEN <<>> ELSE Navigate(page, options, replace)

\* handlers.select.onModalCloseBtnClick(e), e.target being el
OnModalCloseBtnClick(el) ==
  IF Truthy(GetAttribute(el, ModalCloseBtnAttribute))
    THEN << NavCall("dismissModal", Null, <<>>, FALSE) >>
    ELSE <<>>

\* the calls one listener makes on Navigation when it runs for an event whose
\* target is el: el being no menu item, onMenuItemSelect makes none, and the
\* functions of the application make none
RunListener(l, el) ==
  CASE l.f = "onLinkClick"          -> OnLinkClick(el)
    [] l.f = "onModalCloseBtnClick" -> OnModalCloseBtnClick(el)
    [] OTHER                        -> <<>>

RECURSIVE RunListeners(_, _, _)
RunListeners(ls, el, k) ==
  IF k > Len(ls) THEN <<>>
  ELSE RunListener(ls[k], el) \o RunListeners(ls, el, k + 1)

\* the host dispatches a select event on element e of document d, and the
\* listeners run
Select(d, e) ==
  /\ d \in 1..Len(docs)
  /\ e \in 1..Len(elements)
  /\ Selects < MaxSelect
  /\ selects' = [selects EXCEPT ![e] = @ + 1]
  /\ LET ran == Propagate(docs[d], e, <<"select">>)
     IN /\ fired' = [target |-> e, type |-> <<"select">>, ran |-> ran]
        /\ navLog' = navLog \o RunListeners(ran, elements[e], 1)
  /\ UNCHANGED pageVars
  /\ UNCHANGED <<created, itemsCache, elements>>
  /\ UNCHANGED optVars
  /\ UNCHANGED handlerVars

\* _.defaultsDeep on the callbacks of one event: a name that has a callback
\* keeps it
RECURSIVE DefaultsDeepCallbacks(_, _, _)
DefaultsDeepCallbacks(own, src, k) ==
  IF k > Len(src) THEN own
  ELSE DefaultsDeepCallbacks(
         IF MapHas(own, src[k].key) THEN own ELSE Append(own, src[k]), src, k + 1)

\* _.defaultsDeep(handlers, src)
RECURSIVE DefaultsDeepHandlers(_, _, _)
DefaultsDeepHandlers(h, src, k) ==
  IF k > Len(src) THEN h
  ELSE LET name == src[k].key
           merged == IF MapHas(h, name)
                       THEN MapSet(h, name,
                              DefaultsDeepCallbacks(MapGet(h, name), src[k].value, 1))
                       ELSE Append(h, src[k])
       IN DefaultsDeepHandlers(merged, src, k + 1)

\* the object {[event]: {[name]: f}}
HandlersOf(event, name, f) ==
  << [key |-> event, value |-> << [key |-> name, value |-> f] >>] >>

\* the `handlers` objects Handler.setOptions is given; <<>> when there is none
HandlerPatches ==
  { <<>>,
    HandlersOf(<<"select">>, "onLinkClick", "fC"),
    HandlersOf(<<"select">>, "onExtra", "fC"),
    HandlersOf(<<"play">>, "onPlay", "fC") }

\* Handler.setOptions({handlers: patch})
HandlerSetOptions(patch) ==
  /\ handlers' = DefaultsDeepHandlers(handlers, patch, 1)
  /\ handlerCfg' = patch
  /\ UNCHANGED pageVars
  /\ UNCHANGED menuVars
  /\ UNCHANGED fired
  /\ UNCHANGED optVars

\* an element of a template with the attributes the default handlers read
LinkElement(page, options, replace, close) ==
  [ nodeName |-> "lockup",
    attrs    |-> [n \in {HrefAttribute, HrefOptionsAttribute,
                         HrefPageReplaceAttribute, ModalCloseBtnAttribute} |->
                    CASE n = HrefAttribute            -> page
                      [] n = HrefOptionsAttribute     -> options
                      [] n = HrefPageReplaceAttribute -> replace
                      [] OTHER                        -> close],
    page     |-> 0,
    pageDoc  |-> 0 ]

LinkElements ==
  { LinkElement(page, options, replace, close) :
      page \in {Null, "", "details"},
      options \in {Null, "", ValidJson, MalformedJson},
      replace \in {Null, "true", "false"},
      close \in {Null, "close"} }

InitHandlers ==
  \E el \in LinkElements :
    /\ cfgs = << Cfg("a", Undefined, Undefined, Undefined, Undefined,
                     << SingleEntry(<<"select">>, Direct("fB")) >>) >>
    /\ pages = MapSet(<<>>, "a", 1)
    /\ inv = <<>>
    /\ docs = << ParserDom("noTemplate", <<"[]">>) >>
    /\ created = FALSE
    /\ itemsCache = <<>>
    /\ elements = << el >>
    /\ navLog = <<>>
    /\ selects = <<0>>
    /\ fired = NoDispatch
    /\ defaults = PageDefaults
    /\ declared = cfgs
    /\ handlers = DefaultHandlers
    /\ handlerCfg = <<>>

NextHandlers ==
  \/ \E patch \in HandlerPatches : HandlerSetOptions(patch)
  \/ AddAll(1, 1)
  \/ RemoveAll(1, 1)
  \/ Select(1, 1)

SpecHandlers == InitHandlers /\ [][NextHandlers]_vars

(***************************************************************************)
(* The page defaults: one page, created as create("a", cfg), setOptions    *)
(* and the invocations of the page.                                        *)
(***************************************************************************)
\* an object given to setOptions
Patch(style, template, data, options) ==
  [style |-> style, template |-> template, data |-> data, options |-> options]

\* {style}, {template}, {options: {responseType: "text"}}, {options: {}}
OptionPatches ==
  { Patch("dcss", Absent, Absent, NoOptions),
    Patch(Absent, "dtplFn", Absent, NoOptions),
    Patch(Absent, Absent, Absent, OptionsOf("text")),
    Patch(Absent, Absent, Absent, OptionsOf(Undefined)) }

\* setOptions(patch)
SetOptions(patch) ==
  /\ defaults' = Assign(defaults, patch)
  /\ UNCHANGED pageVars
  /\ UNCHANGED menuVars
  /\ UNCHANGED <<fired, declared>>
  /\ UNCHANGED handlerVars

\* the configurations of the page: with a ready resolver or without, with
\* none, some or all of style, template, data and options declared
OptionCfgs ==
  { Cfg(Undefined, "fn", Undefined, Undefined, Undefined, <<>>),
    Cfg(Undefined, Undefined, Undefined, Undefined, Undefined, <<>>),
    With(Cfg(Undefined, Undefined, Undefined, Undefined, Undefined, <<>>),
         "css", Undefined, "literal", OptionsOf(Undefined)),
    With(Cfg(Undefined, "fn", Undefined, Undefined, Undefined, <<>>),
         "", "tplFn", "dataFn", OptionsOf("text")) }

InitOptions ==
  \E c \in OptionCfgs :
    /\ cfgs = <<[c EXCEPT !.name = "a"]>>
    /\ pages = MapSet(<<>>, "a", 1)
    /\ inv = <<>>
    /\ docs = <<>>
    /\ created = FALSE
    /\ itemsCache = <<>>
    /\ elements = <<>>
    /\ navLog = <<>>
    /\ selects = <<>>
    /\ fired = NoDispatch
    /\ defaults = PageDefaults
    /\ declared = cfgs
    /\ handlers = DefaultHandlers
    /\ handlerCfg = <<>>

NextOptions ==
  \/ \E patch \in OptionPatches : SetOptions(patch)
  \/ \E f \in 1..MaxPages : Invoke(f)
  \/ \E i \in 1..MaxInv, v \in {Undefined, "data"} : ReadyResolve(i, v)

SpecOptions == InitOptions /\ [][NextOptions]_vars

(***************************************************************************)
(* Properties of the resolution pipeline.                                  *)
(***************************************************************************)
Invs == 1..Len(inv)

CfgOf(i) == cfgs[inv[i].page]

Settled(i) == inv[i].promise.state \in {"resolved", "rejected"}

\* the documents makeDom built for invocation i
DocsOf(i) == {d \in 1..Len(docs) : docs[d].inv = i}

\* the falsy values other than undefined
SuppressValues == {Null, "false", "0", ""}

\* C1: a page with a url and an onError function whose transport call failed
\* has had onError called with the failure payload and its promise resolved.
C1_OnErrorResolves ==
  \A i \in Invs :
    ( /\ inv[i].pc = "done"
      /\ inv[i].ajaxUrl # Undefined
      /\ IsFunction(CfgOf(i).onError)
      /\ ~AjaxSucceeds(inv[i].xhr.status) )
    => /\ inv[i].errArgs = <<[response |-> inv[i].xhr.response, xhr |-> i]>>
       /\ inv[i].promise.state = "resolved"

\* C2: when the first continuation call of a ready resolver is resolve with a
\* falsy value other than undefined, the promise is resolved with null, and
\* the documents built for an invocation are exactly those of its resolve
\* calls with a truthy or undefined value: none is built for a suppressing call.
C2_FalsyResolveSuppresses ==
  \A i \in Invs :
    /\ ( /\ inv[i].hist # <<>>
         /\ inv[i].hist[1].k = "resolve"
         /\ inv[i].hist[1].v \in SuppressValues )
       => inv[i].promise = [state |-> "resolved", value |-> Null, doc |-> 0]
    /\ inv[i].readyCalled
       => Cardinality(DocsOf(i)) =
            Cardinality({j \in 1..Len(inv[i].hist) :
                           /\ inv[i].hist[j].k = "resolve"
                           /\ inv[i].hist[j].v \notin SuppressValues})

\* a resolver whose only call was resolve(v), v falsy and not undefined: the
\* promise is resolved with null and no document exists
C2_Witness ==
  \E i \in Invs, v \in SuppressValues :
    /\ inv[i].hist = <<[k |-> "resolve", v |-> v]>>
    /\ inv[i].promise.state = "resolved"
    /\ inv[i].promise.value = Null
    /\ docs = <<>>

\* C3: when the first continuation call of a ready resolver is reject(x), the
\* promise is rejected with reason x, whatever the resolver calls afterwards.
C3_RejectKeepsReason ==
  \A i \in Invs :
    ( /\ inv[i].hist # <<>>
      /\ inv[i].hist[1].k = "reject" )
    => inv[i].promise = [state |-> "rejected", value |-> inv[i].hist[1].v, doc |-> 0]

\* a resolver that called reject("x") and then resolve with data
C3_Witness ==
  \E i \in Invs :
    /\ inv[i].hist = <<[k |-> "reject", v |-> "x"], [k |-> "resolve", v |-> "data"]>>
    /\ inv[i].promise.state = "rejected"
    /\ inv[i].promise.value = "x"

\* the transport call of invocation i has completed and its callback has run,
\* or its ready resolver has called a continuation
Terminal(i) ==
  \/ inv[i].pc = "done"
  \/ inv[i].pc = "ready" /\ inv[i].hist # <<>>

\* C9: an invocation whose transport call has completed, or whose ready
\* resolver has called a continuation, has a settled promise.
C9_EveryInvocationSettles == \A i \in Invs : Terminal(i) => Settled(i)

\* C10: the ready resolver is invoked exactly when ready is callable, and then
\* the transport is not called; the transport is called only when ready is not
\* callable and url is truthy; a document is built directly only when ready is
\* not callable and url is falsy.
C10_StrategyPriority ==
  \A i \in Invs :
    /\ inv[i].readyCalled <=> IsFunction(CfgOf(i).ready)
    /\ inv[i].readyCalled => inv[i].ajaxUrl = Undefined /\ ~inv[i].direct
    /\ inv[i].ajaxUrl # Undefined
       => /\ ~IsFunction(CfgOf(i).ready)
          /\ CfgOf(i).url \notin Falsy
          /\ inv[i].ajaxUrl = CfgOf(i).url
          /\ ~inv[i].direct
    /\ inv[i].direct
       => ~IsFunction(CfgOf(i).ready) /\ CfgOf(i).url \in Falsy
    /\ inv[i].readyCalled \/ inv[i].ajaxUrl # Undefined \/ inv[i].direct

\* a configuration with a callable ready and a url: the resolver ran and
\* called a continuation, the transport was never called
C10_Witness ==
  \E i \in Invs :
    /\ IsFunction(CfgOf(i).ready)
    /\ CfgOf(i).url = "/x"
    /\ inv[i].readyCalled
    /\ inv[i].hist # <<>>
    /\ inv[i].ajaxUrl = Undefined


(***************************************************************************)
(* Properties of the registry.                                             *)
(***************************************************************************)
\* the factory made by the most recent create under name n; 0 when there is none
MostRecent(n) ==
  IF \E f \in 1..Len(cfgs) : cfgs[f].name = n
    THEN CHOOSE f \in 1..Len(cfgs) :
           cfgs[f].name = n /\ \A g \in (f + 1)..Len(cfgs) : cfgs[g].name # n
    ELSE 0

\* C7: get(name) is the factory of the most recent create under that name, and
\* the registry holds one entry per name.
C7_LastCreateWins ==
  /\ \A n \in Names \cup {Undefined} : Get(n) = MostRecent(n)
  /\ \A j, k \in 1..Len(pages) : pages[j].key = pages[k].key => j = k

\* two pages created under the name "a": get("a") is the second factory
C7_Witness ==
  /\ Len(cfgs) = 2
  /\ cfgs[1].name = "a"
  /\ cfgs[2].name = "a"
  /\ Get("a") = 2

(***************************************************************************)
(* Properties of the menu item handler.                                    *)
(***************************************************************************)
\* the calls in log made for invocation i by the callbacks of its promise
ThenLog(i) ==
  LET Mine(c) == c.by = "then" /\ c.inv = i IN SelectSeq(navLog, Mine)

\* the page factory calls in a log
PageCalls(log) ==
  LET IsPage(c) == c.op = "page" IN Len(SelectSeq(log, IsPage))

\* C5: a select event on a menu item whose pageDoc is set invokes no page
\* factory and publishes nothing when the reload attribute is absent (or
\* empty), and invokes the item's page factory exactly once when the reload
\* attribute holds a value.
C5_ReloadGatesReselect ==
  [][ \A e \in 1..Len(elements) :
        ( /\ Len(selects') = Len(selects)
          /\ selects'[e] = selects[e] + 1
          /\ elements[e].pageDoc # 0 )
        => IF GetAttribute(elements[e], ReloadAttribute) \in {Null, ""}
             THEN inv' = inv /\ docs' = docs /\ navLog' = navLog
             ELSE /\ Len(inv') = Len(inv) + 1
                  /\ inv'[Len(inv')].page = elements[e].page
                  /\ inv'[Len(inv')].owner = e
                  /\ PageCalls(navLog') = PageCalls(navLog) + 1
    ]_vars

\* an item whose first load published a document, and whose second select,
\* the reload attribute set, invoked the page factory again
C5_Witness ==
  \E e \in 1..Len(elements), i, j \in 1..Len(inv) :
    /\ i < j
    /\ inv[i].owner = e
    /\ inv[j].owner = e
    /\ inv[i].reacted
    /\ elements[e].pageDoc = inv[i].promise.doc
    /\ elements[e].pageDoc # 0
    /\ GetAttribute(elements[e], ReloadAttribute) = "true"
    /\ \E a, b \in 1..Len(navLog) :
         /\ a < b
         /\ navLog[a].op = "setDocument" /\ navLog[a].kind = "doc" /\ navLog[a].inv = i
         /\ navLog[b].op = "page" /\ navLog[b].inv = j

\* C6: for an item whose reload attribute was never set, the page factory is
\* invoked only when every earlier invocation for the item has failed.
C6_ResolvedAtMostOnce ==
  [][ \A e \in 1..Len(elements) :
        ( /\ Len(inv') = Len(inv) + 1
          /\ inv'[Len(inv')].owner = e
          /\ GetAttribute(elements[e], ReloadAttribute) = Null )
        => \A i \in 1..Len(inv) :
             inv[i].owner = e => inv[i].promise.state = "rejected"
    ]_vars

Ran(f) == LET Calls_f(l) == l.f = f IN Len(SelectSeq(fired.ran, Calls_f))

\* the calls made on the document are one attach with configuration 1
AttachedOnce ==
  \/ docs[1].calls = << [fn |-> "setListeners", add |-> TRUE, cfg |-> 1] >>
  \/ docs[1].calls = << [fn |-> "setDefaultHandlers", add |-> TRUE, cfg |-> 0],
                        [fn |-> "setListeners", add |-> TRUE, cfg |-> 1] >>

\* the calls made on the document are one attach and the matching detach
AttachedThenDetached ==
  \/ docs[1].calls = << [fn |-> "setListeners", add |-> TRUE, cfg |-> 1],
                        [fn |-> "setListeners", add |-> FALSE, cfg |-> 1] >>
  \/ docs[1].calls = << [fn |-> "setDefaultHandlers", add |-> TRUE, cfg |-> 0],
                        [fn |-> "setListeners", add |-> TRUE, cfg |-> 1],
                        [fn |-> "setDefaultHandlers", add |-> FALSE, cfg |-> 0],
                        [fn |-> "setListeners", add |-> FALSE, cfg |-> 1] >>

\* C4: with "select .item": ["onSel", fB] bound, a select event dispatched on
\* an element carrying the class runs each of the two handlers once after an
\* attach, and none of them after the matching detach.
C4_DetachSilencesHandlers ==
  ( /\ cfgs[1].events = ItemEvents
    /\ fired.type = <<"select">>
    /\ fired.target \in 1..NumItems )
  => /\ AttachedOnce => Ran("fA") = 1 /\ Ran("fB") = 1
     /\ AttachedThenDetached => Ran("fA") = 0 /\ Ran("fB") = 0

(***************************************************************************)
(* Properties of the three branches of the pipeline.                       *)
(***************************************************************************)
\* the response makeDom works on when it is called with v
Payload(v) == IF IsUndefined(v) THEN "[]" ELSE v

\* the first continuation call of invocation i is resolve(v) with v truthy
\* or undefined
FirstCallRenders(i) ==
  /\ inv[i].hist # <<>>
  /\ inv[i].hist[1].k = "resolve"
  /\ inv[i].hist[1].v \notin SuppressValues

\* what the template is given for response x under configuration c: the
\* result of c.data when that is a function, else c.data itself
TemplateData(c, x) ==
  CASE c.data = "identity" -> <<x>>
    [] c.data = "dataFn"   -> <<"dataFn", x>>
    [] OTHER               -> <<c.data>>

\* the first document built for invocation i; 0 when there is none
FirstDocOf(i) ==
  IF DocsOf(i) = {} THEN 0
  ELSE CHOOSE d \in DocsOf(i) : \A e \in DocsOf(i) : d <= e

\* C11 as claimed: when the first continuation call of a ready resolver is
\* resolve(v) with v truthy or undefined, the promise is resolved with a
\* document that was built and prepared from v itself as the response.
C11_ResolveValueIsResponse ==
  \A i \in Invs :
    FirstCallRenders(i)
    => /\ inv[i].promise.state = "resolved"
       /\ inv[i].promise.doc = FirstDocOf(i)
       /\ inv[i].promise.doc # 0
       /\ docs[inv[i].promise.doc].data = TemplateData(CfgOf(i), inv[i].hist[1].v)

\* C11 as amended: when the first continuation call of a ready resolver is
\* resolve(v) with v truthy or undefined, the promise is resolved with a
\* document built from the configuration's template and prepared (events
\* bound, tagged), whose data is the data transform of v when v is truthy and
\* of the empty list when v is undefined.
C11_ResolveBuildsDocument ==
  \A i \in Invs :
    FirstCallRenders(i)
    => /\ inv[i].promise.state = "resolved"
       /\ inv[i].promise.doc = FirstDocOf(i)
       /\ inv[i].promise.doc # 0
       /\ LET d == docs[inv[i].promise.doc]
          IN /\ d.data = TemplateData(CfgOf(i), Payload(inv[i].hist[1].v))
             /\ d.template = CfgOf(i).template
             /\ d.inv = i
             /\ d.page = inv[i].page
             /\ d.calls # <<>>

\* one resolver called resolve(undefined) with a data function declared, and
\* the document's data is that function applied to the empty list
C11_Witness ==
  \E i \in Invs :
    /\ inv[i].hist = <<[k |-> "resolve", v |-> Undefined]>>
    /\ CfgOf(i).data = "dataFn"
    /\ inv[i].promise.state = "resolved"
    /\ inv[i].promise.doc # 0
    /\ docs[inv[i].promise.doc].data = <<"dataFn", "[]">>

C13_DirectBuildIsSynchronous ==
  \A i \in Invs :
    ( /\ ~IsFunction(CfgOf(i).ready)
      /\ CfgOf(i).url \in Falsy )
    => /\ inv[i].ajaxUrl = Undefined
       /\ inv[i].xhr.status = -1
       /\ ~inv[i].readyCalled
       /\ inv[i].pc = "done"
       /\ inv[i].promise.state = "resolved"
       /\ DocsOf(i) = {inv[i].promise.doc}
       /\ docs[inv[i].promise.doc].data = TemplateData(CfgOf(i), "[]")
       /\ docs[inv[i].promise.doc].template = CfgOf(i).template

\* a page with a data function and neither ready nor url was invoked twice:
\* two documents, each from the data function applied to the empty list
C13_Witness ==
  /\ Len(inv) = 2
  /\ Len(docs) = 2
  /\ \A i \in Invs :
       /\ CfgOf(i).ready = Undefined /\ CfgOf(i).url = Undefined
       /\ inv[i].direct
       /\ docs[inv[i].promise.doc].data = <<"dataFn", "[]">>

(***************************************************************************)
(* Properties of the merge with the page defaults.                         *)
(***************************************************************************)
\* the properties the page defaults have
DefaultFields == {"style", "template", "data"}

\* configuration b is configuration a with the values of d in the properties
\* a leaves undefined, and with every other property as in a
FilledFrom(a, b, d) ==
  /\ \A k \in DefaultFields :
       b[k] = IF a[k] = Undefined THEN d[k] ELSE a[k]
  /\ b.options.has
  /\ b.options.responseType =
       IF a.options.has /\ a.options.responseType # Undefined
         THEN a.options.responseType
         ELSE d.options.responseType
  /\ \A k \in {"name", "ready", "url", "onError", "afterReady", "events", "props"} :
       b[k] = a[k]

\* a step that starts an invocation
Starts == Len(inv') = Len(inv) + 1

\* C14: the merge an invocation makes fills style, template, data and
\* options.responseType from the page defaults where the configuration leaves
\* them undefined (with "", the warning template, the identity and "json"
\* while setOptions has not replaced them) and keeps every property the
\* configuration defines; merging the result again changes nothing.
C14_MergeFillsUndefinedOnly ==
  [][ Starts =>
        LET f == inv'[Len(inv')].page
        IN /\ FilledFrom(cfgs[f], cfgs'[f], defaults)
           /\ defaults = PageDefaults =>
                /\ cfgs[f].style = Undefined => cfgs'[f].style = ""
                /\ cfgs[f].template = Undefined => cfgs'[f].template = "noTemplate"
                /\ cfgs[f].data = Undefined => cfgs'[f].data = "identity"
                /\ (~cfgs[f].options.has \/ cfgs[f].options.responseType = Undefined)
                     => cfgs'[f].options.responseType = "json"
           /\ FilledFrom(cfgs'[f], cfgs'[f], defaults)
           /\ DefaultsDeep(cfgs'[f], defaults) = cfgs'[f]
    ]_vars

\* a configuration declared with a style, literal data and an empty options
\* object was merged by two invocations: style and data are the declared
\* ones, template and responseType the defaults
C14_Witness ==
  /\ Len(inv) = 2
  /\ declared[1].style = "css"
  /\ declared[1].template = Undefined
  /\ declared[1].options = OptionsOf(Undefined)
  /\ cfgs[1].style = "css"
  /\ cfgs[1].data = "literal"
  /\ cfgs[1].template = "noTemplate"
  /\ cfgs[1].options = OptionsOf("json")

FirstOfFactory == \A j \in 1..Len(inv) : inv[j].page # inv'[Len(inv')].page

\* configuration b has the values of d in every property that a leaves
\* undefined
HonoursDefaults(a, b, d) ==
  /\ \A k \in DefaultFields : a[k] = Undefined => b[k] = d[k]
  /\ (~a.options.has \/ a.options.responseType = Undefined)
       => b.options.responseType = d.options.responseType

\* C16 as claimed: every invocation uses, for each field the caller's
\* configuration did not define, the default in force when the invocation
\* starts, also when an earlier invocation of the factory has run.
C16_EveryInvocationHonoursDefaults ==
  [][ Starts =>
        LET f == inv'[Len(inv')].page
        IN HonoursDefaults(declared[f], cfgs'[f], defaults)
    ]_vars

\* C16 as amended: the first invocation of a factory uses, for each field the
\* caller's configuration did not define, the default in force when it starts
\* (so setOptions calls made after create and before it are honoured); a later
\* invocation keeps every field that is already defined on the configuration,
\* those filled by an earlier invocation included, and fills only what is
\* still undefined.
C16_FirstInvocationHonoursDefaults ==
  [][ Starts =>
        LET f == inv'[Len(inv')].page
        IN IF FirstOfFactory
             THEN /\ cfgs[f] = declared[f]
                  /\ HonoursDefaults(declared[f], cfgs'[f], defaults)
             ELSE /\ \A k \in DefaultFields :
                       cfgs[f][k] # Undefined => cfgs'[f][k] = cfgs[f][k]
                  /\ cfgs[f].options.responseType # Undefined
                       => cfgs'[f].options = cfgs[f].options
                  /\ HonoursDefaults(cfgs[f], cfgs'[f], defaults)
    ]_vars

\* a page invoked twice: the style default set before the first invocation is
\* on the configuration, the template default set after it is not
C16_Witness ==
  /\ Len(inv) = 2
  /\ declared[1].style = Undefined
  /\ declared[1].template = Undefined
  /\ defaults.style = "dcss"
  /\ cfgs[1].style = "dcss"
  /\ defaults.template = "dtplFn"
  /\ cfgs[1].template = "noTemplate"

(***************************************************************************)
(* Properties of the order of the menu item handler's calls.               *)
(***************************************************************************)
\* the step runs the select handler for element e
SelectOn(e) ==
  /\ e \in 1..Len(selects)
  /\ Len(selects') = Len(selects)
  /\ selects'[e] = selects[e] + 1

\* element e is a menu item with a page, and has no pageDoc or holds a value
\* in its reload attribute
Loads(e) ==
  /\ elements[e].nodeName = "menuItem"
  /\ elements[e].page # 0
  /\ \/ elements[e].pageDoc = 0
     \/ elements[e].attrs.reloadOnSelect \notin {Null, ""}

\* the positions in navLog of the calls with operation op made for invocation i
Positions(op, i) ==
  {a \in 1..Len(navLog) : navLog[a].op = op /\ navLog[a].inv = i}

\* C17: a select event that triggers loading publishes the loading
\* placeholder to the item's slot and then invokes the item's page factory,
\* in that order and with nothing in between; so for every invocation the
\* handler started, the loading placeholder comes before the page call, and
\* that before every call the callbacks of its promise make.
C17_LoaderBeforePage ==
  [][ /\ \A e \in 1..Len(elements) :
           (SelectOn(e) /\ Loads(e))
           => /\ Len(navLog') = Len(navLog) + 2
              /\ navLog'[Len(navLog) + 1].op = "setDocument"
              /\ navLog'[Len(navLog) + 1].kind = "loader"
              /\ navLog'[Len(navLog) + 1].item = e
              /\ navLog'[Len(navLog) + 2].op = "page"
              /\ navLog'[Len(navLog) + 2].inv = Len(inv')
              /\ Len(inv') = Len(inv) + 1
              /\ inv'[Len(inv')].owner = e
      /\ \A i \in 1..Len(inv) :
           inv[i].owner # 0
           => \E a \in Positions("setDocument", i), b \in Positions("page", i) :
                /\ navLog[a].kind = "loader"
                /\ navLog[a].item = inv[i].owner
                /\ a < b
                /\ \A c \in 1..Len(navLog) :
                     (navLog[c].inv = i /\ navLog[c].by = "then") => b < c
    ]_vars

\* an item was selected, its page resolved with a document, and the menu bar
\* was given the loading placeholder, then (after the page call) the document
C17_Witness ==
  \E i \in 1..Len(inv) :
    /\ inv[i].owner # 0
    /\ inv[i].reacted
    /\ Len(navLog) = 4
    /\ navLog[1].op = "setDocument" /\ navLog[1].kind = "loader"
    /\ navLog[2].op = "page" /\ navLog[2].inv = i
    /\ navLog[3].op = "setDocument" /\ navLog[3].kind = "doc"
    /\ navLog[3].item = navLog[1].item

\* the step runs the callbacks of the promise of invocation i
CompletionOf(i) == ~inv[i].reacted /\ inv'[i].reacted

\* the dismissal requests among the calls of a log
Dismissals(log) ==
  LET IsDismiss(c) == c.op = "dismissModal" IN Len(SelectSeq(log, IsDismiss))

\* C18: the callbacks of a page promise resolved with a document set the
\* item's pageDoc to it, publish it to the item's slot and then request
\* dismissal; the callbacks of any settled page promise request dismissal
\* exactly once, as their last call, and make no call before the promise is
\* settled.
C18_PublishThenDismiss ==
  [][ \A i \in 1..Len(inv) :
        /\ CompletionOf(i) =>
             /\ inv[i].promise.state # "pending"
             /\ Dismissals(ThenLog(i)') = 1
             /\ ThenLog(i)'[Len(ThenLog(i)')].op = "dismissModal"
             /\ (inv[i].promise.state = "resolved" /\ inv[i].promise.doc # 0)
                  => /\ elements'[inv[i].owner].pageDoc = inv[i].promise.doc
                     /\ Len(ThenLog(i)') = 2
                     /\ ThenLog(i)'[1].op = "setDocument"
                     /\ ThenLog(i)'[1].kind = "doc"
                     /\ ThenLog(i)'[1].doc = inv[i].promise.doc
                     /\ ThenLog(i)'[1].item = inv[i].owner
        /\ ~inv[i].reacted => ThenLog(i) = <<>>
        /\ inv[i].reacted => ThenLog(i)' = ThenLog(i)
    ]_vars

\* an item whose page resolved with document 1: pageDoc is the document, and
\* the last two calls are its publication and the dismissal request
C18_Witness ==
  \E e \in 1..Len(elements) :
    /\ elements[e].pageDoc = 1
    /\ Len(docs) = 1
    /\ Len(navLog) = 4
    /\ navLog[3].op = "setDocument" /\ navLog[3].doc = 1 /\ navLog[3].item = e
    /\ navLog[4].op = "dismissModal"

\* C19: a select event on an element that has no page reference, or that is
\* not a menu item, publishes nothing, invokes no page factory, requests no
\* dismissal and leaves every element as it is.
C19_OtherTargetsIgnored ==
  [][ \A e \in 1..Len(elements) :
        ( /\ SelectOn(e)
          /\ \/ elements[e].page = 0
             \/ elements[e].nodeName # "menuItem" )
        => /\ navLog' = navLog
           /\ inv' = inv
           /\ docs' = docs
           /\ cfgs' = cfgs
           /\ elements' = elements
    ]_vars

\* both an element that is not a menu item (with a page reference) and a menu
\* item without a page reference have been selected, and nothing was called
C19_Witness ==
  /\ elements[1].nodeName = "lockup"
  /\ elements[1].page # 0
  /\ selects[1] = 1
  /\ \E e \in 2..Len(elements) :
       /\ elements[e].nodeName = "menuItem"
       /\ elements[e].page = 0
       /\ selects[e] = 1
  /\ navLog = <<>>
  /\ inv = <<>>

(***************************************************************************)
(* Properties of document construction.                                    *)
(***************************************************************************)
\* the steps of the construction of a document under configuration c, in the
\* order claimed: the data function and afterReady when they are functions,
\* the style when it is a string
StepsFor(c) ==
  (IF c.data \in Functions THEN <<"data">> ELSE <<>>)
    \o <<"template">>
    \o (IF c.style \in {"", "css", "dcss"} THEN <<"style">> ELSE <<>>)
    \o <<"events">>
    \o (IF c.afterReady \in Functions THEN <<"afterReady">> ELSE <<>>)
    \o <<"tag">>

\* C20: every document was constructed in the order data function, template,
\* style, event binding (the default handlers, then the handlers of the
\* configuration), afterReady, tag, whichever branch built it; it is tagged
\* with the configuration of the factory of its invocation, and so is every
\* document a page promise is resolved with.
C20_ConstructionOrder ==
  /\ \A d \in 1..Len(docs) :
       /\ docs[d].inv \in Invs
       /\ docs[d].page = inv[docs[d].inv].page
       /\ docs[d].steps = StepsFor(cfgs[docs[d].page])
       /\ docs[d].calls =
            << [fn |-> "setDefaultHandlers", add |-> TRUE, cfg |-> 0],
               [fn |-> "setListeners", add |-> TRUE, cfg |-> docs[d].page] >>
  /\ \A i \in Invs :
       inv[i].promise.doc # 0
       => /\ inv[i].promise.doc \in DocsOf(i)
          /\ docs[inv[i].promise.doc].page = inv[i].page

\* the promise of a page with a data function, a style, events and afterReady
\* was resolved by its ready resolver with a document that went through all
\* six steps
C20_Witness ==
  \E i \in Invs :
    /\ inv[i].readyCalled
    /\ inv[i].promise.doc # 0
    /\ docs[inv[i].promise.doc].steps =
         <<"data", "template", "style", "events", "afterReady", "tag">>
    /\ docs[inv[i].promise.doc].page = inv[i].page

(***************************************************************************)
(* Properties of addAll and removeAll.                                     *)
(***************************************************************************)
\* the calls a step appends to those made on the document
NewCalls == SubSeq(docs'[1].calls, Len(docs[1].calls) + 1, Len(docs'[1].calls))

\* C21: a step of addAll or removeAll (the one kind of step that makes two
\* calls on the document) processes the default handlers first and the
\* configuration's handlers second, in the same direction; a first addAll
\* leaves every default listener of the document node registered before every
\* listener of the configuration, and a removeAll leaves no default listener.
C21_DefaultsFirst ==
  [][ Len(NewCalls) = 2 =>
        /\ NewCalls[1].fn = "setDefaultHandlers"
        /\ NewCalls[2].fn = "setListeners"
        /\ NewCalls[1].add = NewCalls[2].add
        /\ NewCalls[2].cfg = 1
        /\ LET before == docs[1].listeners[0]
               after  == docs'[1].listeners[0]
           IN /\ (NewCalls[1].add /\ before = <<>>) =>
                   /\ \E x \in 1..Len(after) : after[x].f = "onLinkClick"
                   /\ \A x, y \in 1..Len(after) :
                        (after[x].w = 0 /\ after[y].w # 0) => x < y
              /\ ~NewCalls[1].add => \A x \in 1..Len(after) : after[x].w # 0 ]_vars

\* the document was given addAll and then removeAll, the configuration
\* declaring a handler on the document node itself
C21_Witness ==
  /\ cfgs[1].events = << SingleEntry(<<"select">>, Direct("fB")) >>
  /\ Len(docs[1].calls) = 4
  /\ docs[1].calls[1] = [fn |-> "setDefaultHandlers", add |-> TRUE, cfg |-> 0]
  /\ docs[1].calls[3] = [fn |-> "setDefaultHandlers", add |-> FALSE, cfg |-> 0]
  /\ \E x \in 1..Len(docs[1].listeners[0]) : docs[1].listeners[0][x].f = "fB"

(***************************************************************************)
(* Properties of the handler references.                                   *)
(***************************************************************************)
\* the functions of the listeners of that type a step registers on target t,
\* in registration order: those wrapped by the closures the step creates
NewHandlers(t, type) ==
  LET New(l) == l.w > docs[1].closures /\ l.type = type
      ls == SelectSeq(docs'[1].listeners[t], New)
  IN [j \in 1..Len(ls) |-> ls[j].f]

\* the step ends with an attach of the configuration's handlers
Attaches ==
  /\ Len(NewCalls) >= 1
  /\ NewCalls[Len(NewCalls)] = [fn |-> "setListeners", add |-> TRUE, cfg |-> 1]

\* what the name "onSel" stands for when the step is taken
OnSelNow ==
  IF cfgs[1].props["onSel"] \in Functions THEN << cfgs[1].props["onSel"] >> ELSE <<>>

\* C22: an attach binds, for the name "onSel", the function the configuration
\* holds under that name when the attach is made, whatever it held when the
\* page was created; a name that stands for no function ("missing", or
\* "onSel" once it holds a value that is not a function) is skipped and the
\* other references of the descriptor are bound.
C22_ResolvedAtBindTime ==
  [][ Attaches =>
        /\ cfgs[1].events = ItemEvents =>
              \A t \in 1..NumItems :
                NewHandlers(t, <<"select">>) = OnSelNow \o <<"fB">>
        /\ (\E k \in 1..Len(cfgs[1].events) : cfgs[1].events[k].desc = <<"play">>) =>
              NewHandlers(0, <<"play">>) = OnSelNow ]_vars

\* a function assigned under "onSel" after the page was created is the one an
\* element listens with
C22_Witness ==
  /\ cfgs[1].events = ItemEvents
  /\ declared[1].props["onSel"] = "fA"
  /\ cfgs[1].props["onSel"] = "fC"
  /\ \E x \in 1..Len(docs[1].listeners[1]) : docs[1].listeners[1][x].f = "fC"
  /\ \A x \in 1..Len(docs[1].listeners[1]) : docs[1].listeners[1][x].f # "fA"

(***************************************************************************)
(* Properties of a selector the host cannot parse.                         *)
(***************************************************************************)
\* the listeners of document d on target t that a configuration declared
Declared(d, t) ==
  LET OfCfg(l) == l.w # 0 IN SelectSeq(docs[d].listeners[t], OfCfg)

\* C23: of a page declaring "select [" (a selector the query throws on) and
\* then "play", every document built has no listener for the first
\* descriptor on any target and the listener of the second on the document
\* node, has gone through every construction step, and an invocation whose
\* resolver first passed a value that renders is resolved with its document.
C23_MalformedSelectorBindsNothing ==
  /\ \A d \in 1..Len(docs) :
       cfgs[docs[d].page].events = MalformedEvents
       => /\ \A t \in Targets :
               \A x \in 1..Len(Declared(d, t)) :
                 Declared(d, t)[x].type # <<"select">>
          /\ \E x \in 1..Len(Declared(d, 0)) :
               /\ Declared(d, 0)[x].type = <<"play">>
               /\ Declared(d, 0)[x].f = "fA"
          /\ docs[d].steps = <<"data", "template", "style", "events", "tag">>
  /\ \A i \in Invs :
       (CfgOf(i).events = MalformedEvents /\ FirstCallRenders(i))
       => /\ inv[i].promise.state = "resolved"
          /\ inv[i].promise.doc = FirstDocOf(i)
          /\ inv[i].promise.doc # 0

\* an invocation of such a page was resolved with a document
C23_Witness ==
  \E i \in Invs :
    /\ CfgOf(i).events = MalformedEvents
    /\ inv[i].promise.state = "resolved"
    /\ inv[i].promise.doc # 0
    /\ Declared(inv[i].promise.doc, 0) # <<>>

(***************************************************************************)
(* Properties of the default handlers.                                     *)
(***************************************************************************)
\* the navigation requests a step makes
NewNavigations ==
  LET IsNavigate(c) == c.op = "navigate"
  IN SelectSeq(SubSeq(navLog', Len(navLog) + 1, Len(navLog')), IsNavigate)

\* the document node listens with function f
ListensWith(d, f) ==
  \E x \in 1..Len(d.listeners[0]) : d.listeners[0][x].f = f

\* the options object the text of an options attribute stands for
OptionsFor(text) ==
  IF text = ValidJson THEN << [key |-> "id", value |-> 1] >> ELSE <<>>

C25_SetOptionsOverrides ==
  [][ (docs[1].calls = <<>> /\ Len(NewCalls) = 2 /\ NewCalls[1].add) =>
        \A k \in 1..Len(handlerCfg) :
          \A j \in 1..Len(handlerCfg[k].value) :
            LET name == handlerCfg[k].value[j].key
                f    == handlerCfg[k].value[j].value
            IN /\ ListensWith(docs'[1], f)
               /\ name \in {"onLinkClick", "onModalCloseBtnClick", "onMenuItemSelect"}
                    => ~ListensWith(docs'[1], name) ]_vars

(***************************************************************************)
(* Properties of the promise of an invocation.                             *)
(***************************************************************************)
\* C26: no step changes the state, the value or the document of a promise
\* that is settled, and the promise of an invocation whose resolver has called
\* a continuation is resolved when the first call was resolve and rejected
\* with the reason of the first call when it was reject.
C26_SettlesAtMostOnce ==
  [][ \A i \in Invs :
        /\ inv[i].promise.state # "pending" => inv'[i].promise = inv[i].promise
        /\ inv'[i].hist # <<>> =>
             /\ inv'[i].hist[1].k = "resolve" => inv'[i].promise.state = "resolved"
             /\ inv'[i].hist[1].k = "reject" =>
                  /\ inv'[i].promise.state = "rejected"
                  /\ inv'[i].promise.value = inv'[i].hist[1].v ]_vars

\* a resolver called resolve with a value that renders and then reject, and
\* the promise is resolved with the document of the first call
C26_Witness ==
  \E i \in Invs :
    /\ Len(inv[i].hist) = 2
    /\ inv[i].hist[1] = [k |-> "resolve", v |-> "data"]
    /\ inv[i].hist[2].k = "reject"
    /\ inv[i].promise.state = "resolved"
    /\ inv[i].promise.doc = FirstDocOf(i)
    /\ inv[i].promise.doc # 0

(***************************************************************************)
(* Properties of a failed load of a menu item.                             *)
(***************************************************************************)
\* a load of element e has failed and its rejection callback has run
FailedLoad(e) ==
  \E i \in Invs :
    inv[i].owner = e /\ inv[i].promise.state = "rejected" /\ inv[i].reacted

\* C27: the step that runs the callbacks of a rejected promise leaves every
\* pageDoc as it was; a select event on an item with a failed load, no
\* pageDoc and no reload attribute publishes the loading placeholder and then
\* invokes the item's page again; and a pageDoc that is set is the document
\* an invocation of the item's own page, made for that item, was resolved
\* with.
C27_FailedLoadLeavesPageDocUnset ==
  [][ /\ \A i \in Invs :
           (inv[i].promise.state = "rejected" /\ ~inv[i].reacted /\ inv'[i].reacted)
           => \A e \in 1..Len(elements) : elements'[e].pageDoc = elements[e].pageDoc
      /\ \A e \in 1..Len(selects) :
           ( /\ Len(selects') = Len(selects)
             /\ selects'[e] = selects[e] + 1
             /\ FailedLoad(e)
             /\ elements[e].pageDoc = 0
             /\ elements[e].attrs.reloadOnSelect \in Falsy )
           => /\ Len(inv') = Len(inv) + 1
              /\ inv'[Len(inv')].owner = e
              /\ inv'[Len(inv')].page = elements[e].page
              /\ navLog' = navLog \o
                   << Call("setDocument", "select", e, "loader", 0, Undefined, Len(inv')),
                      Call("page", "select", e, "", 0, Undefined, Len(inv')) >>
      /\ \A e \in 1..Len(elements') :
           elements'[e].pageDoc # 0
           => \E i \in 1..Len(inv') :
                /\ inv'[i].owner = e
                /\ inv'[i].page = elements'[e].page
                /\ inv'[i].promise.state = "resolved"
                /\ inv'[i].promise.doc = elements'[e].pageDoc
                /\ docs'[elements'[e].pageDoc].inv = i ]_vars

\* the load of an item failed, its rejection callback ran, and the select
\* event that followed invoked the page again
C27_Witness ==
  /\ Len(inv) = 2
  /\ inv[1].owner = inv[2].owner
  /\ inv[1].promise.state = "rejected"
  /\ inv[1].reacted
  /\ elements[inv[1].owner].pageDoc = 0
  /\ elements[inv[1].owner].attrs.reloadOnSelect = Null
  /\ navLog[Len(navLog)] = Call("page", "select", inv[1].owner, "", 0, Undefined, 2)
  /\ \E x \in 1..Len(navLog) : navLog[x].kind = "error" /\ navLog[x].inv = 1

=============================================================================
